---- MODULE Spec2Model ----
(***************************************************************************)
(* A model of the faiss-embedder index build/query pipeline.               *)
(*                                                                         *)
(* Spec    : one FaissIndexer (lib/faissIndexer.js) driven by a caller     *)
(*           that awaits each call: constructor, build, load, search.      *)
(*           JavaScript runs to completion between awaits, so every action *)
(*           is the code between two suspension points.                    *)
(* SpecE2E : the two end-to-end build entry points (library build() and    *)
(*           the CLI's runBuild) assembling the metadata sequence from a   *)
(*           source tree; SpecEnum the same over directories with hidden   *)
(*           and empty files, SpecQuery builds followed by queries.        *)
(* SpecDim : indexers of several models; SpecRace: two overlapping build   *)
(*           calls on one indexer.                                         *)
(* SpecCache, SpecChunk, SpecEmbed, SpecSplit : docCache.js, chunkTextSync,*)
(*           OllamaEmbedder and splitTextByFileType, each on its own.      *)
(*                                                                         *)
(* Strings that the code inspects are sequences of tokens: a chunk text is *)
(* a sequence of characters, a path is a sequence of path tokens.          *)
(***************************************************************************)
EXTENDS Integers, Sequences, FiniteSets, TLC

\* ------------------------------------------------------------------ bounds
MaxItems == 2      \* longest input metadata sequence
MaxK == 2          \* largest k passed to search
MaxChunks == 2     \* most chunks the splitter returns for one file
MaxLen == 6        \* longest text handed to chunkTextSync
MaxSize == 3       \* largest chunkSize, and largest overlap, of a chunking call
MaxBatch == 3      \* most texts handed to embedBatch

\* ------------------------------------------------------------- JS values
\* the value `undefined`; no string of the model holds this token
Undefined == <<"undefined">>

\* obj[k] of a JS object whose values are strings
Get(obj, k) == IF k \in DOMAIN obj THEN obj[k] ELSE Undefined

IsWhitespace(c) == c \in {" ", "\n", "\t"}

RECURSIVE TrimStart(_)
TrimStart(s) ==
    IF s = <<>> THEN <<>>
    ELSE IF IsWhitespace(Head(s)) THEN TrimStart(Tail(s)) ELSE s

RECURSIVE TrimEnd(_)
TrimEnd(s) ==
    IF s = <<>> THEN <<>>
    ELSE IF IsWhitespace(s[Len(s)]) THEN TrimEnd(SubSeq(s, 1, Len(s) - 1)) ELSE s

\* String.prototype.trim
Trim(s) == TrimEnd(TrimStart(s))

\* ------------------------------------------------------------------ paths
\* path.dirname: everything before the last "/", the working directory
\* (the empty sequence) when the path has none
Dirname(p) ==
    LET slashes == {i \in 1..Len(p) : p[i] = "/"}
    IN  IF slashes = {} THEN <<>>
        ELSE SubSeq(p, 1, (CHOOSE i \in slashes : \A j \in slashes : j <= i) - 1)

\* indexPath.replace(".bin", "_metadata.json"): the FIRST occurrence only,
\* the path unchanged when it has none
MetaPathOf(indexPath) ==
    LET bins == {i \in 1..Len(indexPath) : indexPath[i] = ".bin"}
    IN  IF bins = {} THEN indexPath
        ELSE LET f == CHOOSE i \in bins : \A j \in bins : i <= j
             IN  [i \in 1..Len(indexPath) |->
                     IF i = f THEN "_metadata.json" ELSE indexPath[i]]

\* output locations a caller passes to build
OutPaths ==
    { <<"out", "/", "index", ".bin">>,
      <<"out", "/", "index">>,
      <<"o", ".bin", "/", "index", ".bin">> }

\* the output directory of an end-to-end build and the files joined to it
OutDir == <<"out">>
Join(dir, name) == dir \o <<"/">> \o name
E2EIndexPath == Join(OutDir, <<"index", ".bin">>)
E2EMetadataPath == Join(OutDir, <<"metadata.json">>)
E2ECachePath == Join(OutDir, <<"doc_index_cache.json">>)

AllPaths ==
    OutPaths \cup {MetaPathOf(p) : p \in OutPaths}
             \cup {E2EIndexPath, E2EMetadataPath, E2ECachePath}

\* --------------------------------------------------------------- files
NoFile == [kind |-> "absent"]
JsonFile(v) == [kind |-> "json", val |-> v]
IndexFile(ix) == [kind |-> "index", type |-> ix.type, d |-> ix.d, vecs |-> ix.vecs]

\* the keys of a JS object whose value is not undefined ("id" holds a number,
\* every other key a string)
DefinedKeys(obj) == {k \in DOMAIN obj : IF k = "id" THEN TRUE ELSE obj[k] # Undefined}

\* JSON.stringify drops the keys whose value is undefined; JSON.parse reads
\* back what was written
Stringify(entry) == [k \in DefinedKeys(entry) |-> entry[k]]

StringifyAll(entries) == [i \in 1..Len(entries) |-> Stringify(entries[i])]

\* --------------------------------------------------------- input metadata
TxtA == <<"a">>
TxtB == <<" ", "b">>
TxtBlank == <<" ", "\n">>
TxtQ == <<"q">>

\* a plain item, one without doc and with extra fields, a whitespace-only one,
\* one without chunk
Items ==
    { [doc |-> <<"d1">>, chunk_id |-> <<"c1">>, chunk |-> TxtA],
      [chunk_id |-> <<"c2">>, chunk |-> TxtB, id |-> 7, tag |-> <<"t">>],
      [doc |-> <<"d3">>, chunk_id |-> <<"c3">>, chunk |-> TxtBlank],
      [doc |-> <<"d4">>, chunk_id |-> <<"c4">>] }

SeqsUpTo(S, n) == UNION {[1..m -> S] : m \in 0..n}

\* what build may find at metadataPath: no file, or a JSON array of items
InputFiles == {NoFile} \cup {JsonFile(s) : s \in SeqsUpTo(Items, MaxItems)}

Queries == {TxtA, TxtQ}

\* ------------------------------------------------------------- variables
VARIABLES
    indexType,   \* this.indexType
    dimension,   \* this.dimension
    index,       \* this.index
    metadata,    \* this.metadata
    disk,        \* the files at the output locations
    dirs,        \* the directories that exist
    pc,          \* where the call in progress is suspended ("done": returned)
    frame,       \* arguments and locals of the call in progress
    ret,         \* outcome of the call that has just returned
    embedReqs,   \* embedding requests issued by the call in progress
    progress,    \* onProgress invocations, <<current, total>>, of that call
    outputPath,  \* the output location this caller uses
    tree,        \* the source directory: relative path -> number of chunks
    e2e,         \* what the end-to-end entry point did before the indexer ran
    bare,        \* ghost: this.index was read by a load that read no metadata
    existingCache, \* the cache object the caller holds, as generateDocCache returned it
    scan,        \* the docCache.js call in progress
    chunker,     \* the chunkTextSync call in progress
    batch,       \* the OllamaEmbedder call in progress
    splitCall,   \* the splitTextByFileType call in progress
    calls        \* the build calls in progress on one indexer, when they overlap

vars == <<indexType, dimension, index, metadata, disk, dirs, pc, frame, ret, embedReqs,
          progress, outputPath, tree, e2e, bare, existingCache, scan,
          chunker, batch, splitCall, calls>>

\* the state of the other components, which no FaissIndexer call touches
others == <<existingCache, scan, chunker, batch, splitCall, calls>>

NullIndex == [live |-> FALSE, type |-> "none", d |-> 0, vecs |-> <<>>]

NewIndexKeep(type, dim) ==
    IF index.live THEN index
    ELSE [live |-> TRUE, type |-> IF type = "L2" THEN "L2" ELSE "IP", d |-> dim, vecs |-> <<>>]

\* new IndexFlatL2(dimension) / new IndexFlatIP(dimension)
NewIndex(type, dim) ==
    [live |-> TRUE, type |-> IF type = "L2" THEN "L2" ELSE "IP", d |-> dim, vecs |-> <<>>]

\* index.ntotal()
ntotal(ix) == Len(ix.vecs)

NoFrame == [op |-> "none", input |-> NoFile, out |-> <<>>, i |-> 0, k |-> 0,
            query |-> <<>>, health |-> "none", mpath |-> <<>>]

NoRet == [status |-> "none", err |-> "", vectors |-> 0, results |-> <<>>]

NoE2E == [entry |-> "none", exts |-> {}, recursive |-> FALSE, type |-> ""]

\* no cache generated yet, no docCache / chunkTextSync / embedder call running
NoCache == [made |-> FALSE, obj |-> <<>>, exts |-> {}, recursive |-> FALSE,
            fresh |-> FALSE]
NoResult == [added |-> <<>>, modified |-> <<>>, removed |-> <<>>, unchanged |-> <<>>]
NoScan == [pc |-> "idle", op |-> "none", files |-> <<>>, i |-> 0, exts |-> {},
           recursive |-> FALSE, acc |-> <<>>, result |-> NoResult,
           currentFiles |-> {}]
NoChunker == [pc |-> "idle", text |-> <<>>, chunkSize |-> 0, overlap |-> 0,
              chunks |-> <<>>, start |-> 0]
NoOutcome == [status |-> "none", value |-> <<>>, message |-> <<>>]
NoBatch == [pc |-> "idle", op |-> "none", texts |-> <<>>, embeddings |-> <<>>,
            i |-> 0, progress |-> <<>>, requests |-> <<>>, inflight |-> 0,
            replies |-> <<>>, ret |-> NoOutcome]

\* a call slot with no build in it; `saved` is what the call's _save wrote
NoCall == [pc |-> "idle", input |-> NoFile, out |-> <<>>, i |-> 0, ret |-> NoRet,
           saved |-> <<>>]

NoSplit == [pc |-> "idle", filePath |-> <<>>, options |-> <<>>, splitter |-> <<>>]

Ok(n, rs) == [status |-> "ok", err |-> "", vectors |-> n, results |-> rs]
Err(e) == [status |-> "error", err |-> e, vectors |-> 0, results |-> <<>>]

Base ==
    /\ indexType = "IP"
    /\ dimension = 768
    /\ index = NullIndex
    /\ metadata = <<>>
    /\ disk = [p \in AllPaths |-> NoFile]
    /\ dirs = {}
    /\ pc = "idle"
    /\ frame = NoFrame
    /\ ret = NoRet
    /\ embedReqs = 0
    /\ progress = <<>>
    /\ e2e = NoE2E
    /\ bare = FALSE
    /\ existingCache = NoCache
    /\ scan = NoScan
    /\ chunker = NoChunker
    /\ batch = NoBatch
    /\ splitCall = NoSplit
    /\ calls = [c \in 1..2 |-> NoCall]

Init ==
    /\ Base
    /\ outputPath \in OutPaths
    /\ tree = <<>>

\* ------------------------------------------------------ embedding oracle
\* OllamaEmbedder.embed on success: the vector the oracle returns for a text
embed(text) == [of |-> text, unit |-> FALSE]

\* OllamaEmbedder.normalize: the vector scaled to unit length
normalize(vec) == [vec EXCEPT !.unit = TRUE]

\* ---------------------------------------------------- similarity engine
\* index.add(vector): appended at the next ordinal
add(ix, vec) == [ix EXCEPT !.vecs = Append(@, vec)]

\* ghost: the vector tagged with the input item it was computed from
From(vec, item) == [of |-> vec.of, unit |-> vec.unit, src |-> item]

\* the engine's score of a stored vector against the query: inner product
\* (larger is closer) or squared distance (smaller is closer)
Score(type, q, v) ==
    IF type = "L2" THEN (IF q.of = v.of THEN 0 ELSE 1)
    ELSE (IF q.of = v.of THEN 1 ELSE 0)

Closer(type, s1, s2) == IF type = "L2" THEN s1 <= s2 ELSE s1 >= s2

\* index.search(vector, k): faiss-node rejects k > ntotal; otherwise the k
\* nearest ordinals (0-based), best first, ties in any order
EngineSearch(ix, q, k) ==
    LET n == Len(ix.vecs)
        sc(l) == Score(ix.type, q, ix.vecs[l + 1])
    IN  { s \in [1..k -> 0..(n - 1)] :
            /\ \A i, j \in 1..k : i # j => s[i] # s[j]
            /\ \A i, j \in 1..k : i < j => Closer(ix.type, sc(s[i]), sc(s[j]))
            /\ \A i \in 1..k : \A o \in 0..(n - 1) :
                   (\A j \in 1..k : s[j] # o) => Closer(ix.type, sc(s[i]), sc(o)) }

\* ------------------------------------------------------------ constructor
\* the models a caller configures: the default (no option), a model of the
\* table with another dimension, a model the table does not know
Models == {"", "all-minilm", "unknown-model"}

\* modelDimensions[this.model] || 768, with this.model = options.model ||
\* "nomic-embed-text"
DimensionOf(mdl) ==
    LET m == IF mdl = "" THEN "nomic-embed-text" ELSE mdl
    IN  CASE m = "nomic-embed-text" -> 768
          [] m = "mxbai-embed-large" -> 1024
          [] m = "all-minilm" -> 384
          [] m = "snowflake-arctic-embed" -> 1024
          [] m = "bge-m3" -> 1024
          [] OTHER -> 768

\* new FaissIndexer({indexType, model})
Construct(type, mdl) ==
    /\ pc = "idle"
    /\ indexType' = (IF type = "" THEN "IP" ELSE type)
    /\ dimension' = DimensionOf(mdl)
    /\ index' = NullIndex
    /\ metadata' = <<>>
    /\ bare' = FALSE
    /\ UNCHANGED <<disk, dirs, pc, frame, ret, embedReqs, progress, outputPath, tree, e2e>>
    /\ UNCHANGED others

\* ------------------------------------------------------------------ build
\* const chunk = item.chunk || ""
ChunkOf(item) ==
    IF "chunk" \in DOMAIN item /\ item.chunk # <<>> THEN item.chunk ELSE <<>>

IsBlankNoTrim(chunk) == chunk = <<>>

\* !chunk.trim()
IsBlank(chunk) == Trim(chunk) = <<>>

\* the object pushed on this.metadata: id, doc, chunk_id, chunk, then every
\* other key of the input item spread over them (a later key wins)
Entry(item, chunk, n) ==
    LET extra == (DOMAIN item) \ {"doc", "chunk_id", "chunk"}
    IN  [k \in {"id", "doc", "chunk_id", "chunk"} \cup extra |->
            IF k \in extra THEN item[k]
            ELSE CASE k = "id" -> n
                   [] k = "doc" -> Get(item, "doc")
                   [] k = "chunk_id" -> Get(item, "chunk_id")
                   [] k = "chunk" -> chunk]

\* the first position >= from whose chunk is not skipped, 0 when there is none
NextToEmbed(items, from) ==
    LET S == {j \in from..Len(items) : ~IsBlank(ChunkOf(items[j]))}
    IN  IF S = {} THEN 0 ELSE CHOOSE j \in S : \A x \in S : j <= x

\* _save(indexPath), then build's return
Save(ix, md, indexPath) ==
    LET dir == Dirname(indexPath)
        dirs1 == dirs \cup {dir}
        disk1 == [disk EXCEPT ![indexPath] = IndexFile(ix)]
        metaPath == MetaPathOf(indexPath)
    IN  /\ dirs' = dirs1
        /\ IF Dirname(metaPath) \in dirs1 \cup {<<>>}
           THEN /\ disk' = [disk1 EXCEPT ![metaPath] = JsonFile(StringifyAll(md))]
                /\ ret' = Ok(ntotal(ix), <<>>)
           ELSE /\ disk' = disk1
                /\ ret' = Err("ENOENT")

\* the for loop from position `from` up to its next await, or through _save
BuildLoop(ix, md, prog, from) ==
    LET j == NextToEmbed(frame.input.val, from)
    IN  /\ index' = ix
        /\ metadata' = md
        /\ progress' = prog
        /\ IF j # 0
           THEN /\ pc' = "build_embed"
                /\ frame' = [frame EXCEPT !.i = j, !.health = "ok"]
                /\ embedReqs' = embedReqs + 1
                /\ ret' = ret
                /\ UNCHANGED <<disk, dirs>>
           ELSE /\ pc' = "done"
                /\ frame' = [frame EXCEPT !.i = Len(frame.input.val) + 1, !.health = "ok"]
                /\ embedReqs' = embedReqs
                /\ Save(ix, md, frame.out)

\* build(metadataPath, outputPath, onProgress) up to `await healthCheck()`
build_call(input, out) ==
    /\ pc = "idle"
    /\ pc' = "build_health"
    /\ frame' = [NoFrame EXCEPT !.op = "build", !.input = input, !.out = out,
                                !.health = "pending"]
    /\ UNCHANGED <<indexType, dimension, index, metadata, disk, dirs, ret, embedReqs,
                   progress, outputPath, tree, e2e, bare>>
    /\ UNCHANGED others

Throw(e) ==
    /\ pc' = "done"
    /\ ret' = Err(e)

PreflightFileFirst(ok, input) ==
    IF input.kind = "absent" THEN "metadata_not_found"
    ELSE IF Len(input.val) = 0 THEN "metadata_empty"
    ELSE IF ~ok THEN "health"
    ELSE ""

\* what build throws before it touches the index, "" when it goes on: the
\* health message first, then the missing file, then the empty array
Preflight(ok, input) ==
    IF ~ok THEN "health"
    ELSE IF input.kind = "absent" THEN "metadata_not_found"
    ELSE IF Len(input.val) = 0 THEN "metadata_empty"
    ELSE ""

\* build from the health check's answer to the first `await embed`
build_health(ok) ==
    /\ pc = "build_health"
    /\ UNCHANGED <<indexType, dimension, outputPath, tree, e2e>>
    /\ UNCHANGED others
    /\ IF Preflight(ok, frame.input) # ""
       THEN /\ Throw(Preflight(ok, frame.input))
            /\ frame' = [frame EXCEPT !.health = IF ok THEN "ok" ELSE "fail"]
            /\ UNCHANGED <<index, metadata, disk, dirs, embedReqs, progress, bare>>
       ELSE /\ BuildLoop(NewIndex(indexType, dimension), <<>>, progress, 1)
            /\ bare' = FALSE

\* build from the answer of `await embed(chunk)` to the next await or the end
build_embed(ok) ==
    /\ pc = "build_embed"
    /\ UNCHANGED <<indexType, dimension, outputPath, tree, e2e, bare>>
    /\ UNCHANGED others
    /\ IF ~ok
       THEN /\ Throw("embed_failed")
            /\ UNCHANGED <<index, metadata, disk, dirs, frame, embedReqs, progress>>
       ELSE LET items == frame.input.val
                item == items[frame.i]
                chunk == ChunkOf(item)
                embedding == normalize(embed(chunk))
            IN  BuildLoop(add(index, From(embedding, item)),
                          Append(metadata, Entry(item, chunk, Len(metadata))),
                          Append(progress, <<frame.i, Len(items)>>),
                          frame.i + 1)

\* ------------------------------------------------------------------- load
\* load(indexPath, metadataPath); metadataPath = <<>> when none is given
load(indexPath, mpath) ==
    /\ pc = "idle"
    /\ pc' = "done"
    /\ frame' = [NoFrame EXCEPT !.op = "load", !.out = indexPath, !.mpath = mpath]
    /\ UNCHANGED <<indexType, dimension, disk, dirs, embedReqs, progress, outputPath,
                   tree, e2e>>
    /\ UNCHANGED others
    /\ IF disk[indexPath].kind = "absent"
       THEN /\ ret' = Err("index_not_found")
            /\ UNCHANGED <<index, metadata, bare>>
       ELSE IF disk[indexPath].kind # "index"
       THEN /\ ret' = Err("read_failed")
            /\ UNCHANGED <<index, metadata, bare>>
       ELSE /\ index' = [live |-> TRUE, type |-> disk[indexPath].type,
                         d |-> disk[indexPath].d, vecs |-> disk[indexPath].vecs]
            /\ IF mpath # <<>> /\ disk[mpath].kind # "absent"
               THEN IF disk[mpath].kind = "json"
                    THEN /\ metadata' = disk[mpath].val
                         /\ ret' = Ok(0, <<>>)
                         /\ bare' = FALSE
                    ELSE /\ metadata' = metadata
                         /\ ret' = Err("json_parse")
                         /\ bare' = FALSE
               ELSE /\ metadata' = metadata
                    /\ ret' = Ok(0, <<>>)
                    /\ bare' = TRUE

\* ----------------------------------------------------------------- search
SearchKNoMin(k, n) == k

\* Math.min(k, this.index.ntotal())
SearchK(k, n) == IF k < n THEN k ELSE n

MetaOfLabelById(md, idx) ==
    LET S == {i \in 1..Len(md) : md[i]["id"] = idx}
    IN  IF S # {} THEN md[CHOOSE i \in S : TRUE] ELSE [id |-> idx]

\* this.metadata[idx] || { id: idx }
MetaOfLabel(md, idx) == IF idx + 1 <= Len(md) THEN md[idx + 1] ELSE [id |-> idx]

\* one pushed result
ResultOf(md, type, q, vecs, idx) ==
    LET meta == MetaOfLabel(md, idx)
    IN  [id |-> idx,
         score |-> Score(type, q, vecs[idx + 1]),
         doc |-> Get(meta, "doc"),
         chunk_id |-> Get(meta, "chunk_id"),
         chunk |-> Get(meta, "chunk")]

\* the result loop: labels of -1 are skipped
ResultsOf(md, ix, q, labels) ==
    LET kept == SelectSeq(labels, LAMBDA l : l # -1)
    IN  [i \in 1..Len(kept) |-> ResultOf(md, ix.type, q, ix.vecs, kept[i])]

IndexEmptyNullOnly(ix) == ~ix.live

\* !this.index || this.index.ntotal() === 0
IndexEmpty(ix) == ~ix.live \/ ntotal(ix) = 0

\* search(query, k) up to `await embed(query)`
search_call(query, k) ==
    /\ pc = "idle"
    /\ frame' = [NoFrame EXCEPT !.op = "search", !.query = query, !.k = k]
    /\ UNCHANGED <<indexType, dimension, index, metadata, disk, dirs, progress,
                   outputPath, tree, e2e, bare>>
    /\ UNCHANGED others
    /\ IF IndexEmpty(index)
       THEN /\ pc' = "done"
            /\ ret' = Err("empty_index")
            /\ embedReqs' = embedReqs
       ELSE /\ pc' = "search_embed"
            /\ ret' = NoRet
            /\ embedReqs' = embedReqs + 1

\* search from the answer of `await embed(query)` to its return
search_embed(ok) ==
    /\ pc = "search_embed"
    /\ pc' = "done"
    /\ UNCHANGED <<indexType, dimension, index, metadata, disk, dirs, frame, embedReqs,
                   progress, outputPath, tree, e2e, bare>>
    /\ UNCHANGED others
    /\ IF ~ok
       THEN ret' = Err("embed_failed")
       ELSE LET queryVec == normalize(embed(frame.query))
                kk == SearchK(frame.k, ntotal(index))
            IN  IF kk > ntotal(index)
                THEN ret' = Err("engine_k")
                ELSE \E labels \in EngineSearch(index, queryVec, kk) :
                         ret' = Ok(0, ResultsOf(metadata, index, queryVec, labels))

\* ------------------------------------------------------ overlapping builds
\* two build calls on the same indexer, neither awaited before the other is
\* made: each has its own arguments and locals, both use this.index and
\* this.metadata

\* the for loop of call c from position `from` up to its next await, or
\* through _save and the return
RaceLoop(c, ix, md, from) ==
    LET j == NextToEmbed(calls[c].input.val, from)
    IN  /\ index' = ix
        /\ metadata' = md
        /\ IF j # 0
           THEN /\ calls' = [calls EXCEPT ![c].pc = "build_embed", ![c].i = j]
                /\ UNCHANGED <<disk, dirs, ret>>
           ELSE /\ Save(ix, md, calls[c].out)
                /\ calls' = [calls EXCEPT ![c].pc = "done", ![c].ret = ret',
                                          ![c].saved = <<IndexFile(ix), StringifyAll(md)>>]

\* build(metadataPath, outputPath) of call c up to `await healthCheck()`
race_call(c, input, out) ==
    /\ pc = "idle"
    /\ calls[c].pc = "idle"
    /\ calls' = [calls EXCEPT ![c] = [NoCall EXCEPT !.pc = "build_health",
                                                   !.input = input, !.out = out]]
    /\ UNCHANGED <<indexType, dimension, index, metadata, disk, dirs, pc, frame, ret,
                   embedReqs, progress, outputPath, tree, e2e, bare, existingCache,
                   scan, chunker, batch, splitCall>>

\* call c from the health check's answer to its first `await embed`
race_health(c, ok) ==
    /\ calls[c].pc = "build_health"
    /\ IF Preflight(ok, calls[c].input) # ""
       THEN /\ calls' = [calls EXCEPT ![c].pc = "done",
                                      ![c].ret = Err(Preflight(ok, calls[c].input))]
            /\ UNCHANGED <<index, metadata, disk, dirs, ret>>
       ELSE RaceLoop(c, NewIndex(indexType, dimension), <<>>, 1)
    /\ UNCHANGED <<indexType, dimension, pc, frame, embedReqs, progress, outputPath,
                   tree, e2e, bare, existingCache, scan, chunker, batch, splitCall>>

\* call c from the answer of `await embed(chunk)` to its next await or its end
race_embed(c, ok) ==
    /\ calls[c].pc = "build_embed"
    /\ IF ~ok
       THEN /\ calls' = [calls EXCEPT ![c].pc = "done", ![c].ret = Err("embed_failed")]
            /\ UNCHANGED <<index, metadata, disk, dirs, ret>>
       ELSE LET item == calls[c].input.val[calls[c].i]
                chunk == ChunkOf(item)
                embedding == normalize(embed(chunk))
            IN  RaceLoop(c, add(index, From(embedding, item)),
                         Append(metadata, Entry(item, chunk, Len(metadata))),
                         calls[c].i + 1)
    /\ UNCHANGED <<indexType, dimension, pc, frame, embedReqs, progress, outputPath,
                   tree, e2e, bare, existingCache, scan, chunker, batch, splitCall>>

\* the caller's continuation after call c settled
race_return(c) ==
    /\ calls[c].pc = "done"
    /\ calls' = [calls EXCEPT ![c] = NoCall]
    /\ UNCHANGED <<indexType, dimension, index, metadata, disk, dirs, pc, frame, ret,
                   embedReqs, progress, outputPath, tree, e2e, bare, existingCache,
                   scan, chunker, batch, splitCall>>

NextRace ==
    \/ \E c \in 1..2 :
           \E input \in {f \in InputFiles :
                            /\ f.kind = "json"
                            /\ \A i \in 1..Len(f.val) :
                                   Get(f.val[i], "doc") \in {<<"d1">>, <<"d4">>}} :
               race_call(c, input, outputPath)
    \/ \E c \in 1..2, ok \in BOOLEAN : race_health(c, ok)
    \/ \E c \in 1..2, ok \in BOOLEAN : race_embed(c, ok)
    \/ \E c \in 1..2 : race_return(c)

SpecRace == Init /\ [][NextRace]_vars

\* ------------------------------------------------------ end-to-end build
\* candidate source files, relative to the input directory, in the order
\* readdirSync lists them (a directory is listed where its name sorts)
FileOrder ==
    << <<"a", ".txt">>,
       <<"d", "/", "a", ".txt">>,
       <<"d", "_", "a", ".md">>,
       <<"d", "_", "a", ".txt">> >>

FilePaths == {FileOrder[i] : i \in 1..Len(FileOrder)}

\* what readdirSync lists when the directory also holds a file whose name
\* begins with a dot
Listing == << <<".", "h", ".txt">> >> \o FileOrder

\* a source directory: each file present, with the number of chunks the
\* splitter returns for its content
Trees == UNION {[S -> 1..MaxChunks] : S \in SUBSET FilePaths}

ExtensionLists == {{".txt", ".md"}, {".txt"}}

\* path.extname(name).toLowerCase()
Extname(p) ==
    IF Len(p) > 1 /\ p[Len(p)] \in {".txt", ".md"} /\ p[Len(p) - 1] # "/"
    THEN p[Len(p)] ELSE ""

InSubdir(p) == \E i \in 1..Len(p) : p[i] = "/"

\* getFiles(dir, extensions, recursive) of index.js and of cli.js: the files
\* of the directory, those of its subdirectories when recursive, filtered by
\* extension
getFiles(t, extensions, recursive) ==
    SelectSeq(Listing,
              LAMBDA p : /\ p \in DOMAIN t
                         /\ (InSubdir(p) => recursive)
                         /\ Extname(p) \in extensions)

\* path.basename
Basename(p) ==
    LET slashes == {i \in 1..Len(p) : p[i] = "/"}
    IN  IF slashes = {} THEN p
        ELSE SubSeq(p, (CHOOSE i \in slashes : \A j \in slashes : j <= i) + 1, Len(p))

\* entry.name.startsWith(".")
IsHidden(name) == name # <<>> /\ name[1] \in {".txt", ".md", "."}

\* getFiles(dirPath, {extensions, recursive}) of docCache.js: hidden entries
\* are skipped, the extension filter applies when a list is given
docCacheGetFiles(t, extensions, recursive) ==
    SelectSeq(Listing,
              LAMBDA p : /\ p \in DOMAIN t
                         /\ ~IsHidden(Basename(p))
                         /\ ~IsHidden(p)
                         /\ (InSubdir(p) => recursive)
                         /\ (extensions # {} => Extname(p) \in extensions))

\* getFileHash: the digest stands for the content it was computed from
getFileHash(t, p) == <<"md5", t[p]>>

\* the cache object of generateDocCache: basename -> digest, a later file
\* overwriting an earlier one of the same basename
RECURSIVE CacheOf(_, _, _)
CacheOf(t, files, cache) ==
    IF files = <<>> THEN cache
    ELSE LET key == Basename(Head(files))
             hash == getFileHash(t, Head(files))
         IN  CacheOf(t, Tail(files),
                     [k \in (DOMAIN cache) \cup {key} |->
                         IF k = key THEN hash ELSE cache[k]])

\* the decimal digits of a chunk's sequence index
Digit(i) ==
    CASE i = 0 -> "0" [] i = 1 -> "1" [] i = 2 -> "2" [] i = 3 -> "3"
      [] i = 4 -> "4" [] OTHER -> "n"

\* relativePath.replace(/[\/\\]/g, "_").replace(/\.[^/.]+$/, "")
BaseId(rel) ==
    LET flat == [i \in 1..Len(rel) |-> IF rel[i] \in {"/", "\\"} THEN "_" ELSE rel[i]]
    IN  IF flat # <<>> /\ flat[Len(flat)] \in {".txt", ".md"}
        THEN SubSeq(flat, 1, Len(flat) - 1)
        ELSE flat

\* `${baseId}_${i}`
ChunkId(rel, i) == BaseId(rel) \o <<"_", Digit(i)>>

\* the items pushed for one file: one per chunk the splitter returned; none
\* for a file without content (`if (!content) continue`), which has 0 chunks
FileItems(rel, n) ==
    [i \in 1..n |-> [doc |-> rel, chunk |-> TxtA, chunk_id |-> ChunkId(rel, i - 1)]]

\* the metadata of all files, in enumeration order
RECURSIVE MetadataOf(_, _)
MetadataOf(t, files) ==
    IF files = <<>> THEN <<>>
    ELSE FileItems(Head(files), t[Head(files)]) \o MetadataOf(t, Tail(files))

\* runBuild of cli.js: chunkIds.has(chunkId) holds at some push
HasDuplicate(items) ==
    \E i, j \in 1..Len(items) : i < j /\ items[i].chunk_id = items[j].chunk_id

\* new FaissIndexer({indexType}) followed by indexer.build(metadataPath,
\* indexPath, onProgress) up to its first await
StartIndexer(type, items) ==
    /\ indexType' = type
    /\ dimension' = DimensionOf("")
    /\ index' = NullIndex
    /\ metadata' = <<>>
    /\ pc' = "build_health"
    /\ frame' = [NoFrame EXCEPT !.op = "build", !.input = JsonFile(items),
                                !.out = E2EIndexPath, !.health = "pending"]
    /\ ret' = NoRet
    /\ bare' = FALSE

\* process.exit(1) of the CLI, with what it printed
Exit(e) ==
    /\ pc' = "done"
    /\ ret' = Err(e)
    /\ frame' = [NoFrame EXCEPT !.op = "cli"]
    /\ UNCHANGED <<indexType, dimension, index, metadata, bare>>

\* build(inputDir, outputDir, options) of index.js up to the indexer's first
\* await: no check of the identifiers
lib_build(extensions, recursive) ==
    /\ pc = "idle"
    /\ LET files == getFiles(tree, extensions, recursive)
           items == MetadataOf(tree, files)
       IN  /\ dirs' = dirs \cup {OutDir}
           /\ disk' = [disk EXCEPT ![E2EMetadataPath] = JsonFile(items)]
           /\ StartIndexer("IP", items)
    /\ e2e' = [entry |-> "lib", exts |-> extensions, recursive |-> recursive,
                type |-> "IP"]
    /\ UNCHANGED <<embedReqs, progress, outputPath, tree>>
    /\ UNCHANGED others

WriteCacheSkip(d, obj) == d

\* fs.writeFileSync(outputPath, JSON.stringify(cache, null, 2)) of
\* generateDocCache
WriteCache(d, obj) == [d EXCEPT ![E2ECachePath] = JsonFile(obj)]

\* runBuild(argv) of cli.js through `await generateDocCache`: the output
\* directory exists and the change cache is written
cli_build(extensions, recursive, type) ==
    /\ pc = "idle"
    /\ pc' = "cli_chunk"
    /\ dirs' = dirs \cup {OutDir}
    /\ disk' = WriteCache(disk, CacheOf(tree, docCacheGetFiles(tree, extensions, recursive),
                                        <<>>))
    /\ frame' = [NoFrame EXCEPT !.op = "cli"]
    /\ ret' = NoRet
    /\ e2e' = [entry |-> "cli", exts |-> extensions, recursive |-> recursive,
               type |-> type]
    /\ UNCHANGED <<indexType, dimension, index, metadata, bare, embedReqs, progress,
                   outputPath, tree>>
    /\ UNCHANGED others

\* runBuild from the cache to the indexer's first await, or to its
\* process.exit(1): the files are chunked, metadata.json is written
cli_chunk ==
    /\ pc = "cli_chunk"
    /\ LET files == getFiles(tree, e2e.exts, e2e.recursive)
           items == MetadataOf(tree, files)
       IN  IF HasDuplicate(items)
           THEN /\ disk' = disk
                /\ Exit("duplicate_chunk_id")
           ELSE /\ disk' = [disk EXCEPT ![E2EMetadataPath] = JsonFile(items)]
                /\ IF Len(items) = 0
                   THEN Exit("no_documents")
                   ELSE StartIndexer(e2e.type, items)
    /\ UNCHANGED <<dirs, e2e, embedReqs, progress, outputPath, tree>>
    /\ UNCHANGED others

\* ------------------------------------------------------- end-to-end query
\* query(indexDir, queryText, options) of index.js and runQuery(argv) of
\* cli.js up to search's `await embed`: both files must exist, the indexer is
\* created with indexType "IP", load reads the pair, search starts
e2e_query(entry, q, k) ==
    LET indexPath == E2EIndexPath
        metadataPath == MetaPathOf(E2EIndexPath)
    IN  /\ pc = "idle"
        /\ e2e' = [NoE2E EXCEPT !.entry = entry]
        /\ UNCHANGED <<disk, dirs, progress, outputPath, tree>>
        /\ UNCHANGED others
        /\ IF disk[indexPath].kind = "absent" \/ disk[metadataPath].kind = "absent"
           THEN /\ pc' = "done"
                /\ ret' = Err(IF disk[indexPath].kind = "absent"
                              THEN "index_not_found" ELSE "metadata_not_found")
                /\ frame' = [NoFrame EXCEPT !.op = "query", !.out = indexPath]
                /\ UNCHANGED <<indexType, dimension, index, metadata, bare, embedReqs>>
           ELSE LET ix == [live |-> TRUE, type |-> disk[indexPath].type,
                           d |-> disk[indexPath].d, vecs |-> disk[indexPath].vecs]
                IN  /\ indexType' = "IP"
                    /\ dimension' = DimensionOf("")
                    /\ index' = ix
                    /\ metadata' = disk[metadataPath].val
                    /\ bare' = FALSE
                    /\ frame' = [NoFrame EXCEPT !.op = "search", !.query = q, !.k = k,
                                                !.out = indexPath, !.mpath = metadataPath]
                    /\ IF IndexEmpty(ix)
                       THEN /\ pc' = "done"
                            /\ ret' = Err("empty_index")
                            /\ embedReqs' = embedReqs
                       ELSE /\ pc' = "search_embed"
                            /\ ret' = NoRet
                            /\ embedReqs' = embedReqs + 1

\* ----------------------------------------------------------------- caller
\* the caller's continuation after `await indexer.<call>(...)`: the call's
\* outcome is consumed and its frame is gone
call_return ==
    /\ pc = "done"
    /\ pc' = "idle"
    /\ frame' = NoFrame
    /\ ret' = NoRet
    /\ embedReqs' = 0
    /\ progress' = <<>>
    /\ e2e' = NoE2E
    /\ UNCHANGED <<indexType, dimension, index, metadata, disk, dirs, outputPath, tree,
                   bare>>
    /\ UNCHANGED others

\* ---------------------------------------------------------- specification
Next ==
    \/ \E t \in {"", "IP", "L2"} : Construct(t, "")
    \/ \E input \in InputFiles : build_call(input, outputPath)
    \/ \E ok \in BOOLEAN : build_health(ok)
    \/ \E ok \in BOOLEAN : build_embed(ok)
    \/ \E m \in {<<>>, MetaPathOf(outputPath)} : load(outputPath, m)
    \/ \E q \in Queries, k \in 1..MaxK : search_call(q, k)
    \/ \E ok \in BOOLEAN : search_embed(ok)
    \/ call_return

Spec == Init /\ [][Next]_vars

\* indexers of several models over one output location
NextDim ==
    \/ \E m \in Models : Construct("", m)
    \/ \E input \in InputFiles : build_call(input, outputPath)
    \/ \E ok \in BOOLEAN : build_health(ok)
    \/ \E ok \in BOOLEAN : build_embed(ok)
    \/ \E m \in {<<>>, MetaPathOf(outputPath)} : load(outputPath, m)
    \/ call_return

SpecDim == Init /\ [][NextDim]_vars

\* the end-to-end entry points over one source directory
InitE2E ==
    /\ Base
    /\ outputPath = E2EIndexPath
    /\ tree \in Trees

NextE2E ==
    \/ \E x \in ExtensionLists, r \in BOOLEAN : lib_build(x, r)
    \/ \E x \in ExtensionLists, r \in BOOLEAN, t \in {"IP", "L2"} : cli_build(x, r, t)
    \/ cli_chunk
    \/ \E ok \in BOOLEAN : build_health(ok)
    \/ \E ok \in BOOLEAN : build_embed(ok)
    \/ call_return

SpecE2E == InitE2E /\ [][NextE2E]_vars

\* source directories that may hold a hidden file and files without content
EnumTrees ==
    UNION {[S -> 0..MaxChunks] :
               S \in SUBSET {<<".", "h", ".txt">>, <<"a", ".txt">>, <<"d", "/", "a", ".txt">>}}

InitEnum ==
    /\ Base
    /\ outputPath = E2EIndexPath
    /\ tree \in EnumTrees

SpecEnum == InitEnum /\ [][NextE2E]_vars

\* ------------------------------------------------- change-detection cache
\* the files a caller of docCache.js keeps in the scanned directory: two of
\* one basename in different directories, one of another extension
CacheFiles == {<<"a", ".txt">>, <<"d", "/", "a", ".txt">>, <<"d", "_", "a", ".md">>}

CacheTrees == {t \in Trees : DOMAIN t \subseteq CacheFiles}

\* options.extensions of docCache.js: no list, or a list
CacheExtensionLists == {{}, {".txt"}}

\* the variables no docCache.js call touches
indexerVars == <<indexType, dimension, index, metadata, pc, frame, ret, embedReqs, progress,
                 outputPath, e2e, bare>>

\* the caller writes a file of the directory (a new one, or new content)
write_file(p, c) ==
    /\ scan.pc = "idle"
    /\ (IF p \in DOMAIN tree THEN tree[p] # c ELSE TRUE)
    /\ tree' = [q \in (DOMAIN tree) \cup {p} |-> IF q = p THEN c ELSE tree[q]]
    /\ existingCache' = [existingCache EXCEPT !.fresh = FALSE]
    /\ UNCHANGED <<scan, disk, dirs, chunker, batch, splitCall, calls>>
    /\ UNCHANGED indexerVars

\* the caller removes a file of the directory
remove_file(p) ==
    /\ scan.pc = "idle"
    /\ p \in DOMAIN tree
    /\ tree' = [q \in (DOMAIN tree) \ {p} |-> tree[q]]
    /\ existingCache' = [existingCache EXCEPT !.fresh = FALSE]
    /\ UNCHANGED <<scan, disk, dirs, chunker, batch, splitCall, calls>>
    /\ UNCHANGED indexerVars

\* the end of generateDocCache: the cache is written and returned
SaveCache(obj, extensions, recursive) ==
    /\ dirs' = dirs \cup {Dirname(E2ECachePath)}
    /\ disk' = WriteCache(disk, obj)
    /\ existingCache' = [made |-> TRUE, obj |-> obj, exts |-> extensions,
                         recursive |-> recursive, fresh |-> TRUE]

\* generateDocCache(dirPath, outputPath, {extensions, recursive}) up to its
\* first `await getFileHash`, or to its return when no file is found
generateDocCache_call(extensions, recursive) ==
    /\ scan.pc = "idle"
    /\ LET files == docCacheGetFiles(tree, extensions, recursive)
       IN  IF files = <<>>
           THEN /\ scan' = [NoScan EXCEPT !.pc = "done", !.op = "generate",
                                          !.exts = extensions, !.recursive = recursive]
                /\ SaveCache(<<>>, extensions, recursive)
           ELSE /\ scan' = [NoScan EXCEPT !.pc = "gen_hash", !.op = "generate",
                                          !.files = files, !.i = 1,
                                          !.exts = extensions, !.recursive = recursive]
                /\ UNCHANGED <<existingCache, disk, dirs>>
    /\ UNCHANGED <<tree, chunker, batch, splitCall, calls>>
    /\ UNCHANGED indexerVars

\* generateDocCache from the digest of files[i] to the next await or the end
generateDocCache_hash ==
    /\ scan.pc = "gen_hash"
    /\ LET acc == CacheOf(tree, <<scan.files[scan.i]>>, scan.acc)
       IN  IF scan.i < Len(scan.files)
           THEN /\ scan' = [scan EXCEPT !.i = scan.i + 1, !.acc = acc]
                /\ UNCHANGED <<existingCache, disk, dirs>>
           ELSE /\ scan' = [scan EXCEPT !.pc = "done", !.acc = acc]
                /\ SaveCache(acc, scan.exts, scan.recursive)
    /\ UNCHANGED <<tree, chunker, batch, splitCall, calls>>
    /\ UNCHANGED indexerVars

\* one iteration of detectChanges' first loop: the key is filed under added,
\* modified or unchanged
Classify(result, cacheObj, key, hash) ==
    IF key \notin DOMAIN cacheObj
    THEN [result EXCEPT !.added = Append(@, key)]
    ELSE IF cacheObj[key] # hash
    THEN [result EXCEPT !.modified = Append(@, key)]
    ELSE [result EXCEPT !.unchanged = Append(@, key)]

\* Object.keys(existingCache), in insertion order
RECURSIVE KeysOf(_, _)
KeysOf(cacheObj, order) ==
    IF order = <<>> THEN <<>>
    ELSE LET key == Basename(Head(order))
             rest == KeysOf(cacheObj, Tail(order))
         IN  IF key \in DOMAIN cacheObj /\ \A i \in 1..Len(rest) : rest[i] # key
             THEN <<key>> \o rest ELSE rest

\* detectChanges' second loop: the cache's keys that were not seen
Removed(cacheObj, currentFiles) ==
    SelectSeq(KeysOf(cacheObj, FileOrder), LAMBDA key : key \notin currentFiles)

\* detectChanges(dirPath, existingCache, {extensions, recursive}) up to its
\* first `await getFileHash`, or to its return when no file is found
detectChanges_call(extensions, recursive) ==
    /\ scan.pc = "idle"
    /\ LET files == docCacheGetFiles(tree, extensions, recursive)
       IN  IF files = <<>>
           THEN scan' = [NoScan EXCEPT !.pc = "done", !.op = "detect",
                             !.exts = extensions, !.recursive = recursive,
                             !.result = [NoResult EXCEPT
                                 !.removed = Removed(existingCache.obj, {})]]
           ELSE scan' = [NoScan EXCEPT !.pc = "detect_hash", !.op = "detect",
                             !.files = files, !.i = 1,
                             !.exts = extensions, !.recursive = recursive,
                             !.currentFiles = {Basename(files[1])}]
    /\ UNCHANGED <<tree, existingCache, disk, dirs, chunker, batch, splitCall, calls>>
    /\ UNCHANGED indexerVars

\* detectChanges from the digest of files[i] to the next await or the end
detectChanges_hash ==
    /\ scan.pc = "detect_hash"
    /\ LET filePath == scan.files[scan.i]
           result == Classify(scan.result, existingCache.obj, Basename(filePath),
                              getFileHash(tree, filePath))
       IN  IF scan.i < Len(scan.files)
           THEN scan' = [scan EXCEPT !.i = scan.i + 1, !.result = result,
                             !.currentFiles = @ \cup {Basename(scan.files[scan.i + 1])}]
           ELSE scan' = [scan EXCEPT !.pc = "done",
                             !.result = [result EXCEPT
                                 !.removed = Removed(existingCache.obj, scan.currentFiles)]]
    /\ UNCHANGED <<tree, existingCache, disk, dirs, chunker, batch, splitCall, calls>>
    /\ UNCHANGED indexerVars

\* the caller's continuation after an awaited docCache.js call
scan_return ==
    /\ scan.pc = "done"
    /\ scan' = NoScan
    /\ UNCHANGED <<tree, existingCache, disk, dirs, chunker, batch, splitCall, calls>>
    /\ UNCHANGED indexerVars

InitCache ==
    /\ Base
    /\ outputPath = E2EIndexPath
    /\ tree \in CacheTrees

NextCache ==
    \/ \E p \in CacheFiles, c \in 1..MaxChunks : write_file(p, c)
    \/ \E p \in CacheFiles : remove_file(p)
    \/ \E x \in CacheExtensionLists, r \in BOOLEAN : generateDocCache_call(x, r)
    \/ generateDocCache_hash
    \/ \E x \in CacheExtensionLists, r \in BOOLEAN : detectChanges_call(x, r)
    \/ detectChanges_hash
    \/ scan_return

SpecCache == InitCache /\ [][NextCache]_vars

\* an end-to-end build followed by end-to-end queries of its output directory
InitQuery ==
    /\ Base
    /\ outputPath = E2EIndexPath
    /\ tree \in CacheTrees

NextQuery ==
    \/ \E x \in ExtensionLists, r \in BOOLEAN : lib_build(x, r)
    \/ \E x \in ExtensionLists, r \in BOOLEAN, t \in {"IP", "L2"} : cli_build(x, r, t)
    \/ cli_chunk
    \/ \E ok \in BOOLEAN : build_health(ok)
    \/ \E ok \in BOOLEAN : build_embed(ok)
    \/ \E entry \in {"lib_query", "cli_query"}, q \in Queries, k \in 1..MaxK :
           e2e_query(entry, q, k)
    \/ \E ok \in BOOLEAN : search_embed(ok)
    \/ call_return

SpecQuery == InitQuery /\ [][NextQuery]_vars

\* ------------------------------------------------------------ chunkTextSync
\* the characters texts are made of, all different
Sample == <<"0", "1", "2", "3", "4", "5", "6", "7", "8", "9">>

\* the texts handed to chunkTextSync: the empty text and longer ones
Texts == {SubSeq(Sample, 1, n) : n \in 0..MaxLen}

ChunkSizes == 1..MaxSize
Overlaps == (-1)..MaxSize

\* Math.min
Min(a, b) == IF a < b THEN a ELSE b

\* String.prototype.slice(start, end): a negative index counts from the end
Slice(text, start, end) ==
    LET from == IF start < 0 THEN (IF Len(text) + start < 0 THEN 0 ELSE Len(text) + start)
                ELSE Min(start, Len(text))
        to == IF end < 0 THEN (IF Len(text) + end < 0 THEN 0 ELSE Len(text) + end)
              ELSE Min(end, Len(text))
    IN  SubSeq(text, from + 1, to)

\* start = end - overlap
NextStartNoOverlap(end, overlap) == end

NextStartGap(end, overlap) == end - overlap + 1

NextStart(end, overlap) == end - overlap

\* if (start + overlap >= text.length) break
BreakNever(start, overlap, length) == FALSE

Break(start, overlap, length) == start + overlap >= length

\* the model follows a loop that never ends for this many iterations
IterCap(text) == Len(text) + 1

\* the variables no chunkTextSync call touches
unchunked == <<indexType, dimension, index, metadata, disk, dirs, pc, frame, ret, embedReqs,
               progress, outputPath, tree, e2e, bare, existingCache, scan, batch,
               splitCall, calls>>

\* chunkTextSync(text, chunkSize, overlap) up to the loop's first test
chunkTextSync_call(text, chunkSize, overlap) ==
    /\ chunker.pc = "idle"
    /\ chunker' = [pc |-> "loop", text |-> text, chunkSize |-> chunkSize,
                   overlap |-> overlap, chunks |-> <<>>, start |-> 0]
    /\ UNCHANGED unchunked

\* the loop's test and one iteration of its body, then `return chunks` when
\* the loop is left
chunkTextSync_loop ==
    /\ chunker.pc = "loop"
    /\ Len(chunker.chunks) < IterCap(chunker.text)
    /\ IF chunker.start < Len(chunker.text)
       THEN LET end == Min(chunker.start + chunker.chunkSize, Len(chunker.text))
                start == NextStart(end, chunker.overlap)
            IN  chunker' = [chunker EXCEPT
                    !.chunks = Append(@, Slice(chunker.text, chunker.start, end)),
                    !.start = start,
                    !.pc = IF Break(start, chunker.overlap, Len(chunker.text))
                           THEN "done" ELSE "loop"]
       ELSE chunker' = [chunker EXCEPT !.pc = "done"]
    /\ UNCHANGED unchunked

\* the caller has the chunks
chunkTextSync_return ==
    /\ chunker.pc = "done"
    /\ chunker' = NoChunker
    /\ UNCHANGED unchunked

NextChunk ==
    \/ \E text \in Texts, chunkSize \in ChunkSizes, overlap \in Overlaps :
           chunkTextSync_call(text, chunkSize, overlap)
    \/ chunkTextSync_loop
    \/ chunkTextSync_return

SpecChunk == Init /\ [][NextChunk]_vars

\* a running loop goes on running: the call is synchronous
SpecChunkFair == SpecChunk /\ WF_vars(chunkTextSync_loop)

\* ------------------------------------------------------ splitTextByFileType
SPLITTER_TYPES ==
    [RECURSIVE |-> <<"recursive">>, CHARACTER |-> <<"character">>,
     MARKDOWN |-> <<"markdown">>, CODE |-> <<"code">>]

CODE_LANGUAGES ==
    (<<"js">> :> <<"js">>) @@ (<<"javascript">> :> <<"js">>) @@
    (<<"ts">> :> <<"ts">>) @@ (<<"typescript">> :> <<"ts">>) @@
    (<<"py">> :> <<"python">>) @@ (<<"python">> :> <<"python">>) @@
    (<<"java">> :> <<"java">>) @@ (<<"go">> :> <<"go">>) @@
    (<<"rust">> :> <<"rust">>) @@ (<<"cpp">> :> <<"cpp">>) @@ (<<"c">> :> <<"cpp">>)

\* the lower-case property names every object literal inherits from
\* Object.prototype, each holding an object
InheritedKeys == {<<"constructor">>, <<"__proto__">>}

\* obj[key] of an object literal: its own property, an inherited one, or
\* undefined
Lookup(obj, key) ==
    IF key \in DOMAIN obj THEN obj[key]
    ELSE IF key \in InheritedKeys THEN <<"Object.prototype", key[1]>>
    ELSE Undefined

\* a value in a condition
Truthy(v) == v # Undefined /\ v # <<>>

\* String.prototype.toLowerCase, token by token
LowerCase(p) ==
    [i \in 1..Len(p) |->
        CASE p[i] = "MD" -> "md" [] p[i] = "Js" -> "js" [] OTHER -> p[i]]

\* path.extname: from the last "." of the basename to its end, "" when
\* there is none or the basename begins with it
SplitExtname(p) ==
    LET base == Basename(p)
        dots == {i \in 2..Len(base) : base[i] = "."}
    IN  IF dots = {} THEN <<>>
        ELSE SubSeq(base, CHOOSE i \in dots : \A j \in dots : j <= i, Len(base))

\* createSplitter(options): the splitter constructed
createSplitter(options) ==
    LET type == IF options.type = Undefined THEN SPLITTER_TYPES.RECURSIVE
                ELSE options.type
        language == options.language
    IN  CASE type = SPLITTER_TYPES.CHARACTER ->
                 [class |-> "CharacterTextSplitter", language |-> Undefined]
          [] type = SPLITTER_TYPES.MARKDOWN ->
                 [class |-> "MarkdownTextSplitter", language |-> Undefined]
          [] type = SPLITTER_TYPES.CODE ->
                 IF Truthy(language) /\ Truthy(Lookup(CODE_LANGUAGES, language))
                 THEN [class |-> "RecursiveCharacterTextSplitter.fromLanguage",
                       language |-> Lookup(CODE_LANGUAGES, language)]
                 ELSE [class |-> "RecursiveCharacterTextSplitter",
                       language |-> Undefined]
          [] OTHER ->
                 [class |-> "RecursiveCharacterTextSplitter(separators)",
                  language |-> Undefined]

\* splitTextByFileType(text, filePath, options) up to splitter.splitText:
\* the splitter that createSplitter is asked for
SplitterFor(filePath, options) ==
    LET dotted == LowerCase(SplitExtname(filePath))
        ext == IF dotted = <<>> THEN <<>> ELSE Tail(dotted)
        type == IF ext = <<"md">> \/ ext = <<"markdown">> THEN SPLITTER_TYPES.MARKDOWN
                ELSE IF Truthy(Lookup(CODE_LANGUAGES, ext)) THEN SPLITTER_TYPES.CODE
                ELSE SPLITTER_TYPES.RECURSIVE
        language == IF ext = <<"md">> \/ ext = <<"markdown">> THEN Undefined
                    ELSE IF Truthy(Lookup(CODE_LANGUAGES, ext)) THEN ext
                    ELSE Undefined
    IN  \* { ...options, type, language }: a later key wins
        createSplitter([options EXCEPT !.type = type, !.language = language])

\* the paths of the files handed to the splitter
SplitPaths ==
    {<<"file", ".", e>> :
        e \in {"md", "MD", "markdown", "js", "Js", "ts", "py", "c", "rust",
               "javascript", "txt", "json", "constructor", "__proto__"}}
        \cup {<<"d", ".", "md", "/", "file">>, <<".", "md">>, <<"a", ".", "js", ".", "txt">>}

\* the options a caller passes: no type or one of the four, no language or one
SplitOptions ==
    [type : {Undefined} \cup {SPLITTER_TYPES[k] : k \in DOMAIN SPLITTER_TYPES},
     language : {Undefined, <<"js">>, <<"python">>}]

\* the variables no splitTextByFileType call touches
unsplit == <<indexType, dimension, index, metadata, disk, dirs, pc, frame, ret,
             embedReqs, progress, outputPath, tree, e2e, bare, existingCache, scan,
             chunker, batch, calls>>

split_call(filePath, options) ==
    /\ splitCall.pc = "idle"
    /\ splitCall' = [pc |-> "split", filePath |-> filePath, options |-> options,
                     splitter |-> SplitterFor(filePath, options)]
    /\ UNCHANGED unsplit

\* the caller has the chunks
split_return ==
    /\ splitCall.pc = "split"
    /\ splitCall' = NoSplit
    /\ UNCHANGED unsplit

NextSplit ==
    \/ \E filePath \in SplitPaths, options \in SplitOptions : split_call(filePath, options)
    \/ split_return

SpecSplit == Init /\ [][NextSplit]_vars

\* ---------------------------------------------------------- OllamaEmbedder
\* this.baseUrl and this.model, as the constructor defaults them
baseUrl == "http://localhost:11434"
model == "nomic-embed-text"

\* what becomes of axios.post: a reply carrying an embedding, a reply
\* without one, a refused connection, a 404 or a 500 answer, no answer
\* within the timeout
Replies == {"embedding", "no_embedding", "ECONNREFUSED", "status_404",
            "status_500", "timeout"}

\* the error caught by embed's catch clause: the one axios rejects with, or
\* the one embed throws itself inside the try block
CaughtError(reply) ==
    CASE reply = "no_embedding" ->
             [code |-> "", status |-> 0, message |-> "Invalid response: missing embedding"]
      [] reply = "ECONNREFUSED" ->
             [code |-> "ECONNREFUSED", status |-> 0, message |-> "connect ECONNREFUSED"]
      [] reply = "status_404" ->
             [code |-> "ERR_BAD_REQUEST", status |-> 404,
              message |-> "Request failed with status code 404"]
      [] reply = "status_500" ->
             [code |-> "ERR_BAD_RESPONSE", status |-> 500,
              message |-> "Request failed with status code 500"]
      [] reply = "timeout" ->
             [code |-> "ECONNABORTED", status |-> 0,
              message |-> "timeout of 30000ms exceeded"]

\* error.response?.status === 404
IsNotFoundNever(error) == FALSE

IsNotFound(error) == error.status = 404

\* the message of the Error embed throws from its catch clause
Rethrown(error) ==
    IF error.code = "ECONNREFUSED"
    THEN <<"Ollama not running at ", baseUrl, ". Start with: ollama serve">>
    ELSE IF IsNotFound(error)
    THEN <<"Model '", model, "' not found. Run: ollama pull ", model>>
    ELSE <<"Embedding failed: ", error.message>>

\* how `await this.embed(text)` ends: with the vector, or with a thrown Error
EmbedOutcome(text, reply) ==
    IF reply = "embedding"
    THEN [status |-> "ok", value |-> embed(text), message |-> <<>>]
    ELSE [status |-> "error", value |-> <<>>, message |-> Rethrown(CaughtError(reply))]

\* the variables no OllamaEmbedder call touches
unembedded == <<indexType, dimension, index, metadata, disk, dirs, pc, frame, ret, embedReqs,
                progress, outputPath, tree, e2e, bare, existingCache, scan, chunker,
                splitCall, calls>>

\* embed(text) up to `await axios.post`
embed_call(text) ==
    /\ batch.pc = "idle"
    /\ batch' = [NoBatch EXCEPT !.pc = "embed_post", !.op = "embed",
                                !.texts = <<text>>, !.i = 0,
                                !.requests = <<text>>, !.inflight = 1]
    /\ UNCHANGED unembedded

\* embed from the end of axios.post to its return or throw
embed_reply(reply) ==
    /\ batch.pc = "embed_post"
    /\ batch' = [batch EXCEPT !.pc = "done", !.inflight = 0,
                              !.replies = Append(@, reply),
                              !.ret = EmbedOutcome(batch.texts[1], reply)]
    /\ UNCHANGED unembedded

\* the arguments of onProgress after item i (0-based) of n
ProgressArgsZeroBased(i, n) == <<i, n>>

ProgressArgs(i, n) == <<i + 1, n>>

\* an awaited embed that throws ends embedBatch
RejectsNever(outcome) == FALSE

Rejects(outcome) == outcome.status = "error"

\* embedBatch(texts, onProgress) up to the first `await this.embed`, or to
\* its return when texts is empty
embedBatch_call(texts) ==
    /\ batch.pc = "idle"
    /\ IF Len(texts) = 0
       THEN batch' = [NoBatch EXCEPT !.pc = "done", !.op = "embedBatch",
                                    !.ret = [status |-> "ok", value |-> <<>>,
                                             message |-> <<>>]]
       ELSE batch' = [NoBatch EXCEPT !.pc = "batch_post", !.op = "embedBatch",
                                    !.texts = texts, !.i = 0,
                                    !.requests = <<texts[1]>>, !.inflight = 1]
    /\ UNCHANGED unembedded

\* embedBatch from the end of the embed of texts[i] to the next await, to its
\* return, or to the rejection it passes on
embedBatch_reply(reply) ==
    /\ batch.pc = "batch_post"
    /\ LET outcome == EmbedOutcome(batch.texts[batch.i + 1], reply)
           embeddings == Append(batch.embeddings, outcome.value)
           called == Append(batch.progress, ProgressArgs(batch.i, Len(batch.texts)))
       IN  IF Rejects(outcome)
           THEN batch' = [batch EXCEPT !.pc = "done", !.inflight = 0,
                                      !.replies = Append(@, reply),
                                      !.ret = outcome]
           ELSE IF batch.i + 1 < Len(batch.texts)
           THEN batch' = [batch EXCEPT !.i = batch.i + 1,
                                      !.embeddings = embeddings,
                                      !.progress = called,
                                      !.replies = Append(@, reply),
                                      !.requests = Append(@, batch.texts[batch.i + 2])]
           ELSE batch' = [batch EXCEPT !.pc = "done", !.inflight = 0,
                                      !.i = batch.i + 1,
                                      !.embeddings = embeddings,
                                      !.progress = called,
                                      !.replies = Append(@, reply),
                                      !.ret = [status |-> "ok", value |-> embeddings,
                                               message |-> <<>>]]
    /\ UNCHANGED unembedded

\* the caller's continuation after the awaited call
embedder_return ==
    /\ batch.pc = "done"
    /\ batch' = NoBatch
    /\ UNCHANGED unembedded

BatchTexts == SeqsUpTo(Queries, MaxBatch)

NextEmbed ==
    \/ \E text \in Queries : embed_call(text)
    \/ \E reply \in Replies : embed_reply(reply)
    \/ \E texts \in BatchTexts : embedBatch_call(texts)
    \/ \E reply \in Replies : embedBatch_reply(reply)
    \/ embedder_return

SpecEmbed == Init /\ [][NextEmbed]_vars

\* ============================================================== claims
\* a build has just returned / returned its result
BuildDone == pc = "done" /\ frame.op = "build"
BuildOk == BuildDone /\ ret.status = "ok"
SearchDone == pc = "done" /\ frame.op = "search"

\* an input item with no chunk text, or only whitespace in it
BlankItem(item) ==
    \/ "chunk" \notin DOMAIN item
    \/ \A i \in 1..Len(item.chunk) : item.chunk[i] \in {" ", "\n", "\t"}

NonBlankCount(items) == Cardinality({i \in 1..Len(items) : ~BlankItem(items[i])})

\* the entry describes the input item the vector was computed from
Describes(entry, vec) ==
    /\ Get(entry, "doc") = Get(vec.src, "doc")
    /\ Get(entry, "chunk_id") = Get(vec.src, "chunk_id")
    /\ Get(entry, "chunk") = vec.of

\* C1: in every reachable state the metadata sequence is as long as the index
\* has vectors, and metadata[i] describes the vector at ordinal i.
C1_Aligned ==
    /\ Len(metadata) = ntotal(index)
    /\ \A i \in 1..Len(metadata) : Describes(metadata[i], index.vecs[i])

\* C2: after a successful build the entry at position i has id = i, and
\* only non-blank input items have an entry.
C2_OrdinalIds ==
    BuildOk =>
        /\ \A i \in 1..Len(metadata) : metadata[i]["id"] = i - 1
        /\ Len(metadata) = NonBlankCount(frame.input.val)

\* C3: a successful build over N items of which M are blank returns a
\* vector count of N - M and has issued N - M embedding requests.
C3_SkipCount ==
    BuildOk =>
        /\ ret.vectors = NonBlankCount(frame.input.val)
        /\ embedReqs = NonBlankCount(frame.input.val)

\* a successful build that skipped an item and embedded another
C3_Witness ==
    /\ BuildOk
    /\ ret.vectors >= 1
    /\ ret.vectors < Len(frame.input.val)
    /\ \E i \in 1..Len(frame.input.val) :
           "chunk" \in DOMAIN frame.input.val[i] /\ BlankItem(frame.input.val[i])

\* C4: a step of build that does not complete the build successfully writes
\* no file: a failed build leaves the disk as it was.
C4_AllOrNothing ==
    [][(pc \in {"build_health", "build_embed"} /\ ~(pc' = "done" /\ ret'.status = "ok"))
          => disk' = disk]_vars

\* the persisted pair of the output location is held in memory
HoldsPersistedPair ==
    /\ disk[outputPath].kind = "index"
    /\ disk[MetaPathOf(outputPath)].kind = "json"
    /\ index.live
    /\ index.vecs = disk[outputPath].vecs
    /\ metadata = disk[MetaPathOf(outputPath)].val

\* C5: searching an indexer that holds the index and metadata persisted by
\* a build returns, for every result, the doc, chunk_id and chunk of the
\* input item whose vector is stored at the result's ordinal id.
C5_RoundTrip ==
    (SearchDone /\ ret.status = "ok" /\ HoldsPersistedPair) =>
        \A i \in 1..Len(ret.results) :
            LET r == ret.results[i]
                src == index.vecs[r.id + 1].src
            IN  /\ r.doc = Get(src, "doc")
                /\ r.chunk_id = Get(src, "chunk_id")
                /\ r.chunk = Get(src, "chunk")

\* a search over a pair read back from disk (an entry without its doc key
\* exists only in parsed metadata), returning two results
C5_Witness ==
    /\ SearchDone /\ ret.status = "ok" /\ HoldsPersistedPair
    /\ Len(ret.results) = 2
    /\ \E i \in 1..Len(metadata) : "doc" \notin DOMAIN metadata[i]
    /\ \E i \in 1..Len(metadata) : "doc" \in DOMAIN metadata[i]

\* C6: a search with k >= 1 over an index of n >= 1 vectors whose query was
\* embedded returns exactly min(k, n) results, each with an ordinal id in
\* 0..n-1 (never the sentinel -1), all distinct.
C6_ResultBound ==
    (SearchDone /\ index.live /\ ntotal(index) >= 1 /\ ret.err # "embed_failed") =>
        /\ ret.status = "ok"
        /\ Len(ret.results) =
               (IF frame.k <= ntotal(index) THEN frame.k ELSE ntotal(index))
        /\ \A i \in 1..Len(ret.results) :
               /\ ret.results[i].id # -1
               /\ ret.results[i].id \in 0..(ntotal(index) - 1)
        /\ \A i, j \in 1..Len(ret.results) :
               i # j => ret.results[i].id # ret.results[j].id

\* a search asking for more results than the index has vectors
C6_Witness ==
    /\ SearchDone /\ ret.status = "ok"
    /\ frame.k > ntotal(index)
    /\ Len(ret.results) = ntotal(index)

\* C7: search on an indexer with no index or with an index of zero vectors
\* fails with the empty-index error, issues no embedding request and leaves
\* the indexer and the disk unchanged.
C7_EmptyIndex ==
    [][(pc = "idle" /\ frame'.op = "search" /\ (~index.live \/ ntotal(index) = 0))
          => /\ pc' = "done"
             /\ ret'.status = "error"
             /\ ret'.err = "empty_index"
             /\ embedReqs' = 0
             /\ UNCHANGED <<indexType, index, metadata, disk, dirs>>]_vars

\* a search refused on an index that was built but holds no vector
C7_Witness ==
    /\ SearchDone
    /\ ret.err = "empty_index"
    /\ index.live
    /\ ntotal(index) = 0

\* C8: build awaits the health check before anything else (nothing has
\* changed when it is awaited), and when the check fails build throws the
\* health message whatever is at metadataPath, issues no embedding request,
\* writes no file and leaves index and metadata unchanged.
C8_HealthGate ==
    [][/\ (pc = "idle" /\ pc' = "build_health" /\ e2e'.entry = "none")
          => (embedReqs' = 0 /\ UNCHANGED <<index, metadata, disk, dirs>>)
       /\ (pc = "build_health" /\ frame'.health = "fail")
          => /\ pc' = "done"
             /\ ret'.status = "error"
             /\ ret'.err = "health"
             /\ embedReqs' = 0
             /\ UNCHANGED <<index, metadata, disk, dirs>>]_vars

\* a build refused by the health check while the metadata file is missing,
\* on an indexer that holds an index
C8_Witness ==
    /\ BuildDone
    /\ frame.health = "fail"
    /\ ret.err = "health"
    /\ frame.input.kind = "absent"
    /\ ntotal(index) >= 1

\* C9: a successful build over N items has invoked onProgress N times, with
\* (1, N), (2, N), ..., (N, N).
C9_ProgressPerItem ==
    BuildOk =>
        progress = [i \in 1..Len(frame.input.val) |-> <<i, Len(frame.input.val)>>]

\* C10: the metadata an end-to-end build hands to the indexer never holds
\* the same chunk identifier twice.
C10_DistinctIds ==
    (e2e.entry # "none" /\ frame.op = "build") =>
        \A i, j \in 1..Len(frame.input.val) :
            i # j => frame.input.val[i].chunk_id # frame.input.val[j].chunk_id

\* the keys a list holds
Keys(list) == {list[i] : i \in 1..Len(list)}

NoKeyTwice(list) == \A i, j \in 1..Len(list) : i # j => list[i] # list[j]

DetectDone == scan.pc = "done" /\ scan.op = "detect"

\* the basenames of the files the scan enumerates
CurrentBasenames ==
    LET files == docCacheGetFiles(tree, scan.exts, scan.recursive)
    IN  {Basename(files[i]) : i \in 1..Len(files)}

\* C11: the four lists detectChanges returns are pairwise disjoint, hold no
\* key twice, and together hold exactly the current basenames and the keys
\* of the previous cache.
C11_Partition ==
    DetectDone =>
        LET r == scan.result
            lists == <<r.added, r.modified, r.unchanged, r.removed>>
        IN  /\ \A i, j \in 1..4 : i # j => Keys(lists[i]) \cap Keys(lists[j]) = {}
            /\ \A i \in 1..4 : NoKeyTwice(lists[i])
            /\ UNION {Keys(lists[i]) : i \in 1..4}
                   = CurrentBasenames \cup DOMAIN existingCache.obj

\* C12: detectChanges over a directory unchanged since generateDocCache ran
\* with the same options returns added, modified and removed empty, and
\* unchanged holding exactly the cache's keys.
C12_NoChange ==
    (/\ DetectDone
     /\ existingCache.made /\ existingCache.fresh
     /\ existingCache.exts = scan.exts /\ existingCache.recursive = scan.recursive) =>
        /\ scan.result.added = <<>>
        /\ scan.result.modified = <<>>
        /\ scan.result.removed = <<>>
        /\ Keys(scan.result.unchanged) = DOMAIN existingCache.obj

ChunkDone == chunker.pc = "done"

\* C13: a chunkTextSync call whose overlap is not strictly less than its
\* chunkSize does not return chunks: it is rejected.
C13_RejectsOverlap ==
    (chunker.pc # "idle" /\ chunker.overlap >= chunker.chunkSize) =>
        /\ chunker.pc # "done"
        /\ chunker.chunks = <<>>

\* the configuration has chunkSize >= 1 and overlap < chunkSize
ConfigOk == chunker.chunkSize >= 1 /\ chunker.overlap < chunker.chunkSize

\* C14: with overlap < chunkSize a chunkTextSync call returns, after at most
\* one iteration per character, and every iteration's window starts
\* strictly after the window of the iteration before it.
C14_Terminates ==
    /\ [][(chunker.pc = "loop" /\ chunker'.pc = "loop" /\ ConfigOk)
              => chunker'.start > chunker.start]_vars
    /\ [](ConfigOk => Len(chunker.chunks) <= Len(chunker.text))
    /\ ((chunker.pc = "loop" /\ ConfigOk) ~> ChunkDone)

\* a call that returned after three iterations or more
C14_Witness ==
    /\ ChunkDone /\ ConfigOk
    /\ Len(chunker.chunks) >= 3

\* C15: for a text no longer than chunkSize, the empty text included,
\* chunkTextSync returns exactly one chunk, the whole text.
C15_SingleChunk ==
    (ChunkDone /\ Len(chunker.text) <= chunker.chunkSize) =>
        chunker.chunks = <<chunker.text>>

\* C16: with 0 <= overlap < chunkSize and a text longer than chunkSize,
\* every chunk but the last has length chunkSize, the last is non-empty and
\* no longer than chunkSize, and each chunk after the first begins with the
\* last `overlap` characters of the chunk before it.
C16_Overlap ==
    (/\ ChunkDone
     /\ 0 <= chunker.overlap /\ chunker.overlap < chunker.chunkSize
     /\ Len(chunker.text) > chunker.chunkSize) =>
        LET chunks == chunker.chunks
            n == Len(chunks)
        IN  /\ n >= 1
            /\ \A k \in 1..(n - 1) : Len(chunks[k]) = chunker.chunkSize
            /\ Len(chunks[n]) >= 1 /\ Len(chunks[n]) <= chunker.chunkSize
            /\ \A k \in 2..n :
                   /\ Len(chunks[k]) >= chunker.overlap
                   /\ SubSeq(chunks[k], 1, chunker.overlap)
                        = SubSeq(chunks[k - 1], Len(chunks[k - 1]) - chunker.overlap + 1,
                                 Len(chunks[k - 1]))

\* a call with a real overlap that returned three chunks, the last shorter
C16_Witness ==
    /\ ChunkDone
    /\ chunker.overlap >= 1 /\ chunker.overlap < chunker.chunkSize
    /\ Len(chunker.chunks) >= 3
    /\ Len(chunker.chunks[Len(chunker.chunks)]) < chunker.chunkSize

BatchRunning == batch.op = "embedBatch" /\ batch.pc # "idle"
BatchDone == batch.op = "embedBatch" /\ batch.pc = "done"

\* C17: embedBatch requests the embedding of each text once, in input order,
\* the next request only after the previous one completed (never two in
\* flight); when it succeeds it returns one vector per text in input order
\* and has called onProgress after each item i with (i + 1, texts.length).
C17_Sequential ==
    BatchRunning =>
        /\ batch.inflight <= 1
        /\ batch.requests = SubSeq(batch.texts, 1, Len(batch.requests))
        /\ Len(batch.requests) = Len(batch.replies) + batch.inflight
        /\ (batch.pc = "done" /\ batch.ret.status = "ok") =>
               /\ batch.requests = batch.texts
               /\ batch.ret.value = [i \in 1..Len(batch.texts) |-> embed(batch.texts[i])]
               /\ batch.progress =
                      [i \in 1..Len(batch.texts) |-> <<i, Len(batch.texts)>>]

\* a batch of three texts, two of them equal, that succeeded
C17_Witness ==
    /\ BatchDone /\ batch.ret.status = "ok"
    /\ Len(batch.texts) = 3
    /\ batch.texts[1] = batch.texts[3] /\ batch.texts[1] # batch.texts[2]

\* the 0-based position of the first text whose embedding failed
FirstFailure ==
    LET S == {i \in 1..Len(batch.replies) : batch.replies[i] # "embedding"}
    IN  (CHOOSE i \in S : \A x \in S : i <= x) - 1

\* C18: when the embedding of texts[j] fails, embedBatch fails: it returns
\* no vector, has issued no request for a text after j, and has called
\* onProgress exactly j times.
C18_AbortsBatch ==
    (BatchDone /\ \E i \in 1..Len(batch.replies) : batch.replies[i] # "embedding") =>
        /\ batch.ret.status = "error"
        /\ batch.ret.value = <<>>
        /\ Len(batch.requests) = FirstFailure + 1
        /\ Len(batch.progress) = FirstFailure

\* a batch of three texts whose second embedding failed
C18_Witness ==
    /\ BatchDone /\ batch.ret.status = "error"
    /\ Len(batch.texts) = 3
    /\ FirstFailure = 1

\* the failure classes the embedder tells apart, and what marks each one's
\* error
FailureClasses == {"ECONNREFUSED", "status_404", "no_embedding", "timeout"}

MarkOf(reply) ==
    CASE reply = "ECONNREFUSED" -> "Ollama not running at "
      [] reply = "status_404" -> "Model '"
      [] reply = "no_embedding" -> "Invalid response: missing embedding"
      [] reply = "timeout" -> "timeout of 30000ms exceeded"

Marked(message, mark) == \E i \in 1..Len(message) : message[i] = mark

\* C19: an embed that fails by a refused connection, a 404, a reply without
\* an embedding or a timeout throws the error of that class and of no other
\* class, and returns no vector.
C19_ErrorClasses ==
    (batch.op = "embed" /\ batch.pc = "done" /\ batch.replies[1] \in FailureClasses) =>
        /\ batch.ret.status = "error"
        /\ batch.ret.value = <<>>
        /\ Marked(batch.ret.message, MarkOf(batch.replies[1]))
        /\ \A other \in FailureClasses \ {batch.replies[1]} :
               /\ ~Marked(batch.ret.message, MarkOf(other))
               /\ batch.ret.message # EmbedOutcome(batch.texts[1], other).message

\* an embed whose reply carried no embedding: the error embed throws inside
\* its own try block has gone through its catch clause
C19_Witness ==
    /\ batch.op = "embed" /\ batch.pc = "done"
    /\ batch.replies = <<"no_embedding">>
    /\ batch.ret.message = <<"Embedding failed: ", "Invalid response: missing embedding">>

\* C20: once a load that read no metadata file has put the index in place,
\* every search result carries its ordinal id and score and no document
\* path, chunk identifier or chunk text.
C20_BareResults ==
    (SearchDone /\ ret.status = "ok" /\ bare) =>
        \A i \in 1..Len(ret.results) :
            /\ ret.results[i].id \in 0..(ntotal(index) - 1)
            /\ ret.results[i].score \in {0, 1}
            /\ ret.results[i].doc = Undefined
            /\ ret.results[i].chunk_id = Undefined
            /\ ret.results[i].chunk = Undefined


\* C21: whenever an indexer has read a persisted index artifact (load, the
\* library's query, the CLI's query), its indexType is the metric type of the
\* indexer that wrote the artifact.
C21_SameMetric ==
    (/\ frame.op \in {"load", "search"} /\ frame.out # <<>>
     /\ index.live /\ disk[frame.out].kind = "index"
     /\ index.vecs = disk[frame.out].vecs) =>
        indexType = disk[frame.out].type


\* C22: a successful build leaves the index artifact at the output location
\* and the entry sequence at a different path of the same directory, so the
\* artifact at the output location can be read back by load.
C22_SiblingMetadata ==
    BuildOk =>
        /\ disk[frame.out].kind = "index"
        /\ disk[frame.out].vecs = index.vecs
        /\ MetaPathOf(frame.out) # frame.out
        /\ Dirname(MetaPathOf(frame.out)) = Dirname(frame.out)
        /\ disk[MetaPathOf(frame.out)].kind = "json"


\* C23: the dimension getStats reports, fixed at construction from the
\* model, is the dimension of the index the indexer holds, whether build
\* created it or load read it.
C23_Dimension ==
    index.live => index.d = dimension


\* the extension splitTextByFileType reads off the path, and the strategy the
\* file type calls for
ExtensionOf(p) ==
    LET base == Basename(p)
    IN  IF Len(base) >= 3 /\ base[Len(base) - 1] = "." THEN LowerCase(<<base[Len(base)]>>)
        ELSE <<>>

StrategyFor(ext) ==
    IF ext \in {<<"md">>, <<"markdown">>}
    THEN [class |-> "MarkdownTextSplitter", language |-> Undefined]
    ELSE IF ext \in DOMAIN CODE_LANGUAGES
    THEN [class |-> "RecursiveCharacterTextSplitter.fromLanguage",
          language |-> CODE_LANGUAGES[ext]]
    ELSE [class |-> "RecursiveCharacterTextSplitter(separators)", language |-> Undefined]

\* C24: the splitter splitTextByFileType uses is the one of the file's
\* extension (markdown for md and markdown, the language's for an extension
\* of the language table, the generic recursive one for any other), whatever
\* type or language the caller's options name.
C24_ByExtension ==
    splitCall.pc = "split" =>
        splitCall.splitter = StrategyFor(ExtensionOf(splitCall.filePath))


\* C25: in an end-to-end build no step taken while the health check has not
\* answered ok writes a file or creates a directory or issues an embedding
\* request: a build against an unreachable service leaves the output
\* directory as it was.
C25_HealthFirst ==
    [][(e2e'.entry \in {"lib", "cli"} /\ frame'.health # "ok")
          => (disk' = disk /\ dirs' = dirs /\ embedReqs' = 0)]_vars


\* the non-blank items among the first n of a build's input, in input order
Expected(items, n) == SelectSeq(SubSeq(items, 1, n), LAMBDA item : ~BlankItem(item))

\* index and metadata hold exactly these items, in this order
HoldsExactly(items) ==
    /\ ntotal(index) = Len(items)
    /\ Len(metadata) = Len(items)
    /\ \A i \in 1..Len(items) :
           /\ index.vecs[i].src = items[i]
           /\ Describes(metadata[i], index.vecs[i])

\* C26: whatever builds and loads the indexer went through before, a build
\* waiting for the embedding of item i holds exactly the non-blank items
\* before i of its own input, and a successful build returns, holds and has
\* persisted exactly the non-blank items of its own input, in input order.
C26_FreshBuild ==
    /\ pc = "build_embed" => HoldsExactly(Expected(frame.input.val, frame.i - 1))
    /\ BuildOk =>
           /\ HoldsExactly(Expected(frame.input.val, Len(frame.input.val)))
           /\ ret.vectors = Len(Expected(frame.input.val, Len(frame.input.val)))
           /\ disk[MetaPathOf(frame.out)] = JsonFile(StringifyAll(metadata))
           /\ MetaPathOf(frame.out) # frame.out => disk[frame.out] = IndexFile(index)

\* a build under way, one vector in, while the output location still holds
\* the two vectors of an earlier build, the first computed from another item
C26_Witness ==
    /\ pc = "build_embed"
    /\ ntotal(index) = 1
    /\ disk[outputPath].kind = "index"
    /\ Len(disk[outputPath].vecs) = 2
    /\ disk[outputPath].vecs[1].src # index.vecs[1].src


\* the change cache of the source directory under the running build's options
CacheOfBuild ==
    JsonFile(CacheOf(tree, docCacheGetFiles(tree, e2e.exts, e2e.recursive), <<>>))

CliIndexing == e2e.entry = "cli" /\ frame.op = "build"

C28_IsolatedBuilds ==
    \A c \in 1..2 :
        (calls[c].pc = "done" /\ calls[c].ret.status = "ok") =>
            LET own == Expected(calls[c].input.val, Len(calls[c].input.val))
                vecs == calls[c].saved[1].vecs
                entries == calls[c].saved[2]
            IN  /\ calls[c].ret.vectors = Len(own)
                /\ Len(vecs) = Len(own)
                /\ Len(entries) = Len(own)
                /\ \A i \in 1..Len(own) :
                       /\ vecs[i].src = own[i]
                       /\ Describes(entries[i], vecs[i])


\* the first chunk followed by every later chunk without its first `overlap`
\* characters
RECURSIVE Rejoin(_, _)
Rejoin(chunks, overlap) ==
    IF chunks = <<>> THEN <<>>
    ELSE IF Len(chunks) = 1 THEN chunks[1]
    ELSE Rejoin(SubSeq(chunks, 1, Len(chunks) - 1), overlap)
             \o SubSeq(chunks[Len(chunks)], overlap + 1, Len(chunks[Len(chunks)]))

\* C29: with 0 <= overlap < chunkSize, the chunks chunkTextSync returns,
\* each later one stripped of its first `overlap` characters, concatenate to
\* the input text.
C29_Rejoin ==
    (ChunkDone /\ 0 <= chunker.overlap /\ chunker.overlap < chunker.chunkSize) =>
        Rejoin(chunker.chunks, chunker.overlap) = chunker.text

\* a call with an overlap of two that returned four chunks
C29_Witness ==
    /\ ChunkDone
    /\ chunker.overlap = 2 /\ chunker.chunkSize = 3
    /\ Len(chunker.chunks) = 4


\* the files the change cache was computed from, and the files with a chunk
\* in the metadata file
CachedFiles ==
    LET files == docCacheGetFiles(tree, e2e.exts, e2e.recursive)
    IN  {files[i] : i \in 1..Len(files)}

ChunkedFiles ==
    LET items == disk[E2EMetadataPath].val
    IN  {items[i].doc : i \in 1..Len(items)}

\* C30: once a CLI build has written its change cache and its metadata
\* file, a file of the source directory is in the cache exactly when it has
\* chunks in the metadata.
C30_SameFiles ==
    (e2e.entry = "cli" /\ pc # "cli_chunk" /\ ret.err # "duplicate_chunk_id") =>
        /\ disk[E2ECachePath] = CacheOfBuild
        /\ CachedFiles = ChunkedFiles

====
